---- MODULE Spec2Model ----
(***************************************************************************)
(* State-machine model of the Playwright MCP actor (src/src/main.py):      *)
(* the action/result data model, LocatorStrategy.find_element,             *)
(* BrowserController (launch, execute_action, close) and                   *)
(* PlaywrightMCPActor.run.                                                 *)
(*                                                                         *)
(* The browser engine and the Apify sink are the environment: every call   *)
(* into them returns or raises, chosen nondeterministically.  Python's     *)
(* None is the string "None"; optional objects carry a flag instead.       *)
(* Wall-clock values (timestamps, execution_time_ms) are not modelled.     *)
(***************************************************************************)
EXTENDS Integers, Sequences, FiniteSets, TLC

None == "None"

\* Longest action list a user input carries.
MaxActions == 2
\* Most close() calls a client of BrowserController makes.
MaxCloseCalls == 2

(***************************************************************************)
(* Data model                                                              *)
(***************************************************************************)

ActionType ==
  {"navigate", "click", "type", "fill", "select", "check", "uncheck",
   "screenshot", "extract_text", "extract_attributes", "wait", "scroll",
   "hover", "focus", "press_key", "get_html", "evaluate",
   "wait_for_element", "get_title", "get_url", "go_back", "go_forward",
   "reload"}

SelectorType == {"css", "xpath", "text", "role", "label", "auto"}

\* Python truthiness of the selector / value strings of the model:
\* None, the empty string and the integer 0 are falsy.
Falsy(x) == x \in {None, "", "int:0"}

\* Variant: the value is used without int(), so only integers work.
IntParsableNoStrings(x) == x \in {"int:0", "int:500"}

\* int(value): defined on integers and on numeric strings, raises otherwise.
IntParsable(x) == x \in {"int:0", "int:500", "500"}

\* A raw action descriptor (a dict of the input); an absent key is None.
ActionData(t, sel, val, st) ==
  [type |-> t, selector |-> sel, value |-> val, selector_type |-> st]

\* Action dataclass.
Action(t, sel, val, st) ==
  [type |-> t, selector |-> sel, value |-> val, selector_type |-> st]

NoAction == Action(None, None, None, None)

\* ActionResult dataclass; execute_action starts from success = False.
ActionResult(a) ==
  [success |-> FALSE, action |-> a, output |-> None, error |-> None,
   screenshot_base64 |-> None]

NoResult == ActionResult(NoAction)

\* ActionResult.to_dict: optional keys are present only when truthy.
to_dict(r) ==
  [type |-> r.action.type, success |-> r.success, output |-> r.output]
  @@ (IF Falsy(r.action.selector) THEN <<>> ELSE [selector |-> r.action.selector])
  @@ (IF Falsy(r.action.value) THEN <<>> ELSE [value |-> r.action.value])
  @@ (IF Falsy(r.error) THEN <<>> ELSE [error |-> r.error])
  @@ (IF Falsy(r.screenshot_base64) THEN <<>> ELSE [has_screenshot |-> TRUE])

\* PlaywrightMCPActor._parse_action: the two enum constructors raise
\* ValueError on a value outside the enumeration.
ParseAction(d) ==
  IF d.type \notin ActionType
    THEN [raised |-> TRUE, error |-> "not a valid ActionType", action |-> NoAction]
  ELSE IF (IF d.selector_type = None THEN "auto" ELSE d.selector_type) \notin SelectorType
    THEN [raised |-> TRUE, error |-> "not a valid SelectorType", action |-> NoAction]
  ELSE [raised |-> FALSE, error |-> None,
        action |-> Action(d.type, d.selector, d.value,
                          IF d.selector_type = None THEN "auto" ELSE d.selector_type)]

Exception(cls, msg) == [cls |-> cls, msg |-> msg]

(***************************************************************************)
(* Handler tables of BrowserController                                     *)
(***************************************************************************)

\* Handlers that start with `if not action.selector: raise ValueError`.
SelectorRequired ==
  {"click", "type", "fill", "select", "check", "uncheck",
   "extract_attributes", "hover", "focus", "press_key", "wait_for_element"}

\* Handlers that check `action.value is None`.
ValueNotNone == {"type", "fill", "select", "wait"}

\* Handlers that check `not action.value`.
ValueTruthy == {"navigate", "press_key", "evaluate"}

\* Variant: the value is checked only after the element has been resolved.
ValidateSelectorOnly(a) ==
  IF a.type \in SelectorRequired /\ Falsy(a.selector) THEN "requires 'selector'"
  ELSE None

\* The handler's validation: the message of the ValueError it raises before
\* any locator or engine call, or None.
Validate(a) ==
  IF a.type \in SelectorRequired /\ Falsy(a.selector) THEN "requires 'selector'"
  ELSE IF a.type \in ValueNotNone /\ a.value = None THEN "requires 'value'"
  ELSE IF a.type \in ValueTruthy /\ Falsy(a.value) THEN "requires 'value'"
  ELSE None

\* Variant: wait_for_element does not consult the locator.
UsesLocatorExceptWait(a) ==
  \/ a.type \in SelectorRequired \ {"wait_for_element"}
  \/ a.type \in {"extract_text", "get_html"} /\ ~Falsy(a.selector)

\* Variant: every handler resolves a selector when one is supplied.
UsesLocatorWheneverSelector(a) ==
  \/ a.type \in SelectorRequired
  \/ ~Falsy(a.selector)

\* Whether the handler calls LocatorStrategy.find_element.
UsesLocator(a) ==
  \/ a.type \in SelectorRequired
  \/ a.type \in {"extract_text", "get_html"} /\ ~Falsy(a.selector)

\* Variant: the handler does not test the locator and dereferences None.
NotFoundUnchecked(a) ==
  Exception("AttributeError", "'NoneType' object has no attribute 'first'")

\* The ValueError a handler raises when find_element returned None.
NotFoundError(a) ==
  Exception("ValueError",
            IF a.type = "wait_for_element" THEN "Element not found or timeout"
            ELSE "Element not found")

\* Variant: an explicit strategy is followed by the AUTO ones as fallback.
StrategiesWithFallback(selector_type) ==
  IF selector_type = "auto" THEN <<"css", "xpath", "text", "role">>
  ELSE <<selector_type>>
         \o SelectSeq(<<"css", "xpath", "text", "role">>,
                      LAMBDA s : s # selector_type)

\* Variant: the XPath interpretation is tried before the CSS one.
StrategiesXpathFirst(selector_type) ==
  IF selector_type = "auto" THEN <<"xpath", "css", "text", "role">>
  ELSE <<selector_type>>

\* find_element: the strategy list built from selector_type.
Strategies(selector_type) ==
  IF selector_type = "auto" THEN <<"css", "xpath", "text", "role">>
  ELSE <<selector_type>>

\* Variant: find_element has a branch for the label strategy as well.
ResolversWithLabel == {"css", "xpath", "text", "role", "label"}

\* Strategy names find_element has a resolver for; any other is skipped.
Resolvers == {"css", "xpath", "text", "role"}

\* Exception classes raised inside execute_action; all derive from Exception.
ExceptionClasses == {"ValueError", "TimeoutError", "Error", "AttributeError"}

\* Variant: the except clause names only the engine's exception classes.
CaughtEngineOnly(e) == e.cls \in {"TimeoutError", "Error"}

\* execute_action's `except Exception`: every exception class is caught.
Caught(e) == e.cls \in ExceptionClasses

\* str(action.value) as the handlers pass it to the engine.
Str(v) ==
  CASE v = "int:0" -> "0"
    [] v = "int:500" -> "500"
    [] OTHER -> v

\* The engine operations a handler starts on the page or on the resolved
\* element once validation and resolution are done.
EngineOps(a) ==
  CASE a.type = "navigate" -> <<"goto">>
    [] a.type = "click" -> <<"click">>
    [] a.type = "type" -> <<"type">>
    [] a.type = "fill" -> <<"fill">>
    [] a.type = "select" -> <<"select_option">>
    [] a.type = "check" -> <<"check">>
    [] a.type = "uncheck" -> <<"uncheck">>
    [] a.type = "screenshot" -> <<"screenshot">>
    [] a.type = "extract_text" ->
         IF Falsy(a.selector) THEN <<"content">> ELSE <<"text_content">>
    [] a.type = "extract_attributes" ->
         <<"text_content", "get_attribute:class", "get_attribute:id",
           "get_attribute:href", "get_attribute:src", "get_attribute:value",
           "get_attribute:placeholder">>
    [] a.type = "scroll" -> <<"evaluate">>
    [] a.type = "hover" -> <<"hover">>
    [] a.type = "focus" -> <<"focus">>
    [] a.type = "press_key" -> <<"press">>
    [] a.type = "get_html" ->
         IF Falsy(a.selector) THEN <<"content">> ELSE <<"inner_html">>
    [] a.type = "evaluate" -> <<"evaluate">>
    [] a.type = "get_title" -> <<"title">>
    [] a.type = "get_url" -> <<"url">>
    [] a.type = "go_back" -> <<"go_back">>
    [] a.type = "go_forward" -> <<"go_forward">>
    [] a.type = "reload" -> <<"reload">>
    [] OTHER -> <<>>

\* Variant: navigate reports the requested URL instead of the page's.
NavigateOutputRequested(a, url) == Str(a.value)

\* _navigate: result.output = self.page.url, read after the load.
NavigateOutput(a, url) == url

\* Variant: find_element catches the timeout only.
LocatorCaughtTimeoutOnly(e) == e.cls = "TimeoutError"

\* Exception classes find_element's except clause names.
LocatorCaught(e) == e.cls \in {"TimeoutError", "Error"}

\* Elements a locator may resolve to: the text content and the attributes
\* the element has.
Elements ==
  { [text |-> "Example Domain", attrs |-> <<>>],
    [text |-> "More information", attrs |-> [class |-> "link", href |-> "/more"]],
    [text |-> "", attrs |-> [id |-> "q", value |-> "", placeholder |-> "Search"]] }

\* No element: nothing has been resolved.
NoElement == [text |-> None, attrs |-> <<>>]

\* element.get_attribute(name): the attribute's value, None when the element
\* does not have the attribute.
get_attribute(el, name) ==
  IF name \in DOMAIN el.attrs THEN el.attrs[name] ELSE None

\* Variant: the output holds only the attributes the element has.
_extract_attributesPresentOnly(el) == [text |-> el.text] @@ el.attrs

\* _extract_attributes: the output record built from the resolved element.
_extract_attributes(el) ==
  [text |-> el.text,
   class |-> get_attribute(el, "class"),
   id |-> get_attribute(el, "id"),
   href |-> get_attribute(el, "href"),
   src |-> get_attribute(el, "src"),
   value |-> get_attribute(el, "value"),
   placeholder |-> get_attribute(el, "placeholder")]

\* Output payload of a successful operation, by action type.
OutputOf(a) ==
  CASE a.type = "get_title" -> "page.title"
    [] a.type = "screenshot" -> "Screenshot captured"
    [] a.type = "extract_text" ->
         IF Falsy(a.selector) THEN "page.content" ELSE "text_content"
    [] a.type = "get_html" ->
         IF Falsy(a.selector) THEN "page.content" ELSE "inner_html"
    [] a.type = "evaluate" -> "evaluate.result"
    [] OTHER -> None

(***************************************************************************)
(* Run input                                                               *)
(***************************************************************************)

\* The demo action list run() substitutes for a missing or empty input.
DefaultActions ==
  << ActionData("navigate", None, "https://example.com", None),
     ActionData("get_title", None, None, None),
     ActionData("extract_text", "h1", None, None),
     ActionData("screenshot", None, None, None) >>

\* Actor input dict; present = FALSE is Actor.get_input() returning None.
\* actions_is_list = FALSE is a truthy `actions` value that is no list.
ActorInput(tmpl, params, acts, isList, browser, stealth, export) ==
  [present |-> TRUE, template |-> tmpl, template_params |-> params,
   actions |-> acts, actions_is_list |-> isList, browser_type |-> browser,
   stealth_mode |-> stealth, export_format |-> export]

NoInput ==
  [present |-> FALSE, template |-> None, template_params |-> None,
   actions |-> <<>>, actions_is_list |-> TRUE, browser_type |-> None,
   stealth_mode |-> FALSE, export_format |-> None]

DefaultInput ==
  ActorInput(None, None, DefaultActions, TRUE, "chromium", FALSE, None)

\* run(): a missing input, or one without a truthy `actions`, is replaced
\* by the default demo input.
NormaliseInput(inp) ==
  IF ~inp.present \/ (inp.actions_is_list /\ inp.actions = <<>>)
    THEN DefaultInput ELSE inp

\* TemplateManager.get_template / _google_search: the action list of a known
\* template, or the ValueError for an unknown name or a missing parameter.
get_template(name, params) ==
  IF name # "google_search"
    THEN [raised |-> TRUE, error |-> "Unknown template", actions |-> <<>>]
  ELSE IF Falsy(params)
    THEN [raised |-> TRUE, error |-> "search_query is required", actions |-> <<>>]
  ELSE [raised |-> FALSE, error |-> None,
        actions |-> << ActionData("navigate", None, "https://www.google.com/search", None),
                       ActionData("wait_for_element", "#search", None, None),
                       ActionData("evaluate", None, "script", None),
                       ActionData("screenshot", None, None, None) >>]

\* Lines 753-776 of run(): the action list and launch settings, or the
\* error raised before a controller exists.
ResolveInput(inp) ==
  LET tmpl == IF Falsy(inp.template) THEN [raised |-> FALSE, error |-> None, actions |-> inp.actions]
              ELSE get_template(inp.template, inp.template_params)
  IN  IF tmpl.raised THEN [raised |-> TRUE, error |-> "Template error", actions |-> <<>>]
      ELSE IF Falsy(inp.template) /\ ~inp.actions_is_list
        THEN [raised |-> TRUE, error |-> "'actions' must be an array", actions |-> <<>>]
      ELSE IF tmpl.actions = <<>>
        THEN [raised |-> TRUE, error |-> "'actions' array cannot be empty", actions |-> <<>>]
      ELSE IF (IF inp.browser_type = None THEN "chromium" ELSE inp.browser_type)
                 \notin {"chromium", "firefox", "webkit"}
        THEN [raised |-> TRUE, error |-> "not a valid BrowserType", actions |-> tmpl.actions]
      ELSE [raised |-> FALSE, error |-> None, actions |-> tmpl.actions]

\* Action descriptors the user lists of the model are built from.
RunActionData ==
  { ActionData("navigate", None, "https://example.com", None),
    ActionData("navigate", None, None, None),
    ActionData("click", "h1", None, None),
    ActionData("click", "h1", None, "css"),
    ActionData("screenshot", None, None, None),
    ActionData("get_title", None, None, None),
    ActionData("launch_rocket", None, None, None),
    ActionData("click", "h1", None, "regex") }

UserLists == UNION { [1..n -> RunActionData] : n \in 1..MaxActions }

\* The inputs Actor.get_input() may return.
Inputs ==
  { ActorInput(None, None, l, TRUE, "chromium", FALSE, None) : l \in UserLists }
  \cup
  { NoInput,
    ActorInput(None, None, <<>>, TRUE, "chromium", FALSE, None),
    ActorInput("google_search", "q", <<>>, TRUE, "chromium", FALSE, None),
    ActorInput("google_search", "q", <<ActionData("get_title", None, None, None)>>,
               TRUE, "chromium", FALSE, None),
    ActorInput("google_search", None, <<ActionData("get_title", None, None, None)>>,
               TRUE, "chromium", FALSE, None),
    ActorInput("no_such_template", "q", <<ActionData("get_title", None, None, None)>>,
               TRUE, "chromium", FALSE, None),
    ActorInput(None, None, <<>>, FALSE, "chromium", FALSE, None),
    ActorInput(None, None, <<ActionData("get_title", None, None, None)>>,
               TRUE, "netscape", FALSE, None),
    ActorInput(None, None, <<ActionData("click", "h1", None, None)>>,
               TRUE, "firefox", TRUE, None),
    ActorInput(None, None, <<ActionData("screenshot", None, None, None)>>,
               TRUE, "chromium", FALSE, "csv"),
    ActorInput(None, None, <<ActionData("click", "h1", None, None),
                             ActionData("get_title", None, None, None)>>,
               TRUE, "chromium", FALSE, "csv"),
    ActorInput(None, None, <<ActionData("get_title", None, None, None)>>,
               TRUE, "chromium", FALSE, "excel"),
    ActorInput(None, None, <<ActionData("get_title", None, None, None)>>,
               TRUE, "chromium", FALSE, "xml") }

(***************************************************************************)
(* BrowserController: construction, launch, close                          *)
(***************************************************************************)

\* BrowserController.__init__; created = FALSE is `self.controller = None`.
\* A TRUE handle field is a handle that is not None.
NoController ==
  [created |-> FALSE, playwright |-> FALSE, browser |-> FALSE,
   context |-> FALSE, page |-> FALSE, action_count |-> 0]

NewController == [NoController EXCEPT !.created = TRUE]

\* The awaits of launch() that may raise, in program order.
LaunchFailPoints(stealth) ==
  {"none", "start", "browser", "context", "page"}
  \cup (IF stealth THEN {"stealth"} ELSE {})

\* Variant: launch() logs the exception instead of re-raising it.
launchSwallows(ctl, failAt, stealth) ==
  [ctl |-> [ctl EXCEPT !.playwright = failAt # "start",
                       !.browser = failAt \notin {"start", "browser"},
                       !.context = failAt \notin {"start", "browser", "context"},
                       !.page = failAt = "none"],
   raised |-> FALSE,
   scripts |-> IF stealth /\ failAt \in {"none", "page"} THEN 1 ELSE 0]

\* Variant: the stealth script is installed after the page is created.
launchStealthAfterPage(ctl, failAt, stealth) ==
  [ctl |-> [ctl EXCEPT !.playwright = failAt # "start",
                       !.browser = failAt \notin {"start", "browser"},
                       !.context = failAt \notin {"start", "browser", "context"},
                       !.page = failAt \in {"none", "stealth"}],
   raised |-> failAt # "none",
   scripts |-> IF stealth /\ failAt = "none" THEN 1 ELSE 0]

\* BrowserController.launch with the engine call failAt raising ("none":
\* no call raises): the handles assigned before the exception, whether the
\* exception is re-raised, and how many init scripts were installed.
launch(ctl, failAt, stealth) ==
  [ctl |-> [ctl EXCEPT !.playwright = failAt # "start",
                       !.browser = failAt \notin {"start", "browser"},
                       !.context = failAt \notin {"start", "browser", "context"},
                       !.page = failAt = "none"],
   raised |-> failAt # "none",
   scripts |-> IF stealth /\ failAt \in {"none", "page"} THEN 1 ELSE 0]

Resources == {"context", "browser", "playwright"}

\* Position of a resource in close()'s release order.
ReleaseRank(r) ==
  CASE r = "context" -> 1 [] r = "browser" -> 2 [] r = "playwright" -> 3

Held(ctl, r) ==
  CASE r = "context" -> ctl.context
    [] r = "browser" -> ctl.browser
    [] r = "playwright" -> ctl.playwright

\* The release calls close() may see raise: one of the handles it holds.
CloseFailPoints(ctl) == {"none"} \cup {r \in Resources : Held(ctl, r)}

\* Variant: close() without its try/except.
closeUnguarded(ctl, failAt) ==
  [invoked |-> {r \in Resources :
                  /\ Held(ctl, r)
                  /\ (failAt = "none" \/ ReleaseRank(r) <= ReleaseRank(failAt))},
   log |-> IF failAt = "none" THEN "closed" ELSE "error",
   raised |-> failAt # "none"]

\* BrowserController.close with the release call failAt raising: the
\* release operations invoked (one try block: a raising call skips the
\* later ones), the log line, and whether close() itself raises.
close(ctl, failAt) ==
  [invoked |-> {r \in Resources :
                  /\ Held(ctl, r)
                  /\ (failAt = "none" \/ ReleaseRank(r) <= ReleaseRank(failAt))},
   log |-> IF failAt = "none" THEN "closed" ELSE "error",
   raised |-> FALSE]

(***************************************************************************)
(* PlaywrightMCPActor: statistics and output records                       *)
(***************************************************************************)

\* PlaywrightMCPActor.__init__: self.stats.
InitStats ==
  [total_actions |-> 0, successful_actions |-> 0, failed_actions |-> 0,
   screenshots_captured |-> 0]

\* Variant: the else branch that counts a failed action is missing.
UpdateStatsNoElse(st, r) ==
  [total_actions |-> st.total_actions + 1,
   successful_actions |-> st.successful_actions + (IF r.success THEN 1 ELSE 0),
   failed_actions |-> st.failed_actions,
   screenshots_captured |->
     st.screenshots_captured + (IF Falsy(r.screenshot_base64) THEN 0 ELSE 1)]

\* Variant: a screenshot is counted by action type, succeeded or not.
UpdateStatsByType(st, r) ==
  [total_actions |-> st.total_actions + 1,
   successful_actions |-> st.successful_actions + (IF r.success THEN 1 ELSE 0),
   failed_actions |-> st.failed_actions + (IF r.success THEN 0 ELSE 1),
   screenshots_captured |->
     st.screenshots_captured + (IF r.action.type = "screenshot" THEN 1 ELSE 0)]

\* Variant: total_actions is counted inside the success branch.
UpdateStatsTotalOnSuccess(st, r) ==
  [total_actions |-> st.total_actions + (IF r.success THEN 1 ELSE 0),
   successful_actions |-> st.successful_actions + (IF r.success THEN 1 ELSE 0),
   failed_actions |-> st.failed_actions + (IF r.success THEN 0 ELSE 1),
   screenshots_captured |->
     st.screenshots_captured + (IF ~Falsy(r.screenshot_base64) THEN 1 ELSE 0)]

\* run(): the statistics update after one result (lines 791-800).
UpdateStats(st, r) ==
  [total_actions |-> st.total_actions + 1,
   successful_actions |-> st.successful_actions + (IF r.success THEN 1 ELSE 0),
   failed_actions |-> st.failed_actions + (IF r.success THEN 0 ELSE 1),
   screenshots_captured |->
     st.screenshots_captured + (IF Falsy(r.screenshot_base64) THEN 0 ELSE 1)]

\* The progress record run() pushes after each action.
ProgressRecord(r) == [type |-> "action_result", data |-> to_dict(r)]

\* Variant: the run counts as a success as soon as one action succeeded.
_prepare_outputAnySuccess(st, rs) ==
  [success |-> st.successful_actions > 0, stats |-> st,
   actions |-> [k \in 1..Len(rs) |-> to_dict(rs[k])]]

\* PlaywrightMCPActor._prepare_output.
_prepare_output(st, rs) ==
  [success |-> st.failed_actions = 0, stats |-> st,
   actions |-> [k \in 1..Len(rs) |-> to_dict(rs[k])]]

\* Variant: the failure record leaves the statistics out.
FailureRecordNoStats(e, st) == [success |-> FALSE, error |-> e]

\* The record run()'s except handler pushes.
FailureRecord(e, st) == [success |-> FALSE, error |-> e, stats |-> st]

\* run()'s local `output` before line 808 assigns it.
NoOutput == [success |-> FALSE, stats |-> InitStats, actions |-> <<>>]

\* URL of the page context.new_page() returns.
BlankURL == "about:blank"

\* A URL the engine may end on when a navigation is redirected.
RedirectURL == "https://redirected.example"

\* Actor.push_data: the sink's content after one more record.
push_data(s, rec) == Append(s, rec)

(***************************************************************************)
(* State                                                                   *)
(***************************************************************************)

VARIABLES
  pc,           \* position of run() / of the controller's client
  actor_input,  \* run(): actor_input after the default substitution
  actions_data, \* run(): the action descriptors being executed
  i,            \* run(): 1-based index of the loop
  controller,   \* the BrowserController and its handles
  action,       \* the Action execute_action was called with
  result,       \* the ActionResult execute_action is building / returned
  strategies,   \* find_element: strategies not yet tried
  attempts,     \* find_element: strategies whose visibility wait was made
  locator,      \* find_element: the strategy that resolved, or None
  results,      \* PlaywrightMCPActor.results
  stats,        \* PlaywrightMCPActor.stats
  sink,         \* records accepted by Actor.push_data, in order
  output,       \* run(): the prepared summary, once prepared
  kv,           \* keys stored with Actor.set_value
  exc,          \* message of the exception propagating in run(), or None
  releases,     \* engine side: release calls received, per resource
  close_log,    \* one entry per close() call: "closed", "error" or "raised"
  init_scripts, \* engine side: init scripts installed on the context
  input_record, \* platform side: the input Actor.get_input() returned
  last_push,    \* sink side: how the latest push_data call ended
  page_ops,     \* engine side: operations execute_action started on the page
  page_url,     \* engine side: the page's current URL
  element,      \* engine side: the element the resolved locator points at
  in_flight     \* awaited calls that have started and not yet finished

runVars == <<actor_input, actions_data, i, results, stats, sink, output, kv, exc>>
ctlVars == <<controller, releases, close_log, init_scripts>>
locVars == <<strategies, attempts, locator, element>>
execVars == <<action, result, strategies, attempts, locator, element, in_flight>>
vars == <<pc, actor_input, actions_data, i, controller, action, result,
          strategies, attempts, locator, results, stats, sink, output, kv,
          exc, releases, close_log, init_scripts, input_record, last_push,
          page_ops, page_url, element, in_flight>>

InitCommon ==
  /\ actor_input = NoInput
  /\ actions_data = <<>>
  /\ i = 0
  /\ action = NoAction
  /\ result = NoResult
  /\ strategies = <<>>
  /\ attempts = <<>>
  /\ locator = None
  /\ results = <<>>
  /\ stats = InitStats
  /\ sink = <<>>
  /\ output = NoOutput
  /\ kv = {}
  /\ exc = None
  /\ releases = [r \in Resources |-> 0]
  /\ close_log = <<>>
  /\ init_scripts = 0
  /\ input_record = NoInput
  /\ last_push = None
  /\ page_ops = <<>>
  /\ page_url = None
  /\ element = NoElement
  /\ in_flight = <<>>

\* PlaywrightMCPActor() constructed, run() not yet entered.
Init ==
  /\ pc = "start"
  /\ controller = NoController
  /\ InitCommon

(***************************************************************************)
(* PlaywrightMCPActor.run                                                  *)
(***************************************************************************)

\* Line 717-748: read the input, substitute the default when it is empty.
GetInput ==
  /\ pc = "start"
  /\ \E inp \in Inputs :
       /\ input_record' = inp
       /\ actor_input' = NormaliseInput(inp)
  /\ pc' = "resolve"
  /\ UNCHANGED <<actions_data, i, results, stats, sink, output, kv, exc>>
  /\ UNCHANGED <<ctlVars, execVars>>
  /\ UNCHANGED <<last_push, page_ops, page_url>>

\* Lines 752-776: template expansion, input validation, browser type.
Resolve ==
  /\ pc = "resolve"
  /\ LET r == ResolveInput(actor_input) IN
       /\ actions_data' = r.actions
       /\ IF r.raised THEN exc' = r.error /\ pc' = "except"
                      ELSE exc' = exc /\ pc' = "launch"
  /\ UNCHANGED <<actor_input, i, results, stats, sink, output, kv>>
  /\ UNCHANGED <<ctlVars, execVars>>
  /\ UNCHANGED <<input_record, last_push, page_ops, page_url>>

\* Lines 778-781: construct the controller and launch it.
Launch ==
  /\ pc = "launch"
  /\ \E failAt \in LaunchFailPoints(actor_input.stealth_mode) :
       LET l == launch(NewController, failAt, actor_input.stealth_mode) IN
         /\ controller' = l.ctl
         /\ page_url' = IF l.ctl.page THEN BlankURL ELSE page_url
         /\ init_scripts' = init_scripts + l.scripts
         /\ IF l.raised THEN exc' = "launch failed" /\ pc' = "except" /\ i' = i
                        ELSE exc' = exc /\ pc' = "loop" /\ i' = 1
  /\ UNCHANGED <<actor_input, actions_data, results, stats, sink, output, kv>>
  /\ UNCHANGED <<releases, close_log, execVars>>
  /\ UNCHANGED <<input_record, last_push, page_ops>>

\* Lines 783-786: take the next descriptor and parse it.
LoopParse ==
  /\ pc = "loop"
  /\ i <= Len(actions_data)
  /\ LET p == ParseAction(actions_data[i]) IN
       IF p.raised
         THEN exc' = p.error /\ pc' = "except" /\ action' = action
         ELSE exc' = exc /\ pc' = "execute" /\ action' = p.action
  /\ UNCHANGED <<actor_input, actions_data, i, results, stats, sink, output, kv>>
  /\ UNCHANGED <<ctlVars, result, locVars, in_flight>>
  /\ UNCHANGED <<input_record, last_push, page_ops, page_url>>

\* Variant: the log keeps the latest result only.
RecordLatestOnly ==
  /\ pc = "record"
  /\ results' = <<result>>
  /\ stats' = UpdateStats(stats, result)
  /\ pc' = "push"
  /\ UNCHANGED <<actor_input, actions_data, i, sink, output, kv, exc>>
  /\ UNCHANGED <<ctlVars, execVars>>
  /\ UNCHANGED <<input_record, last_push, page_ops, page_url>>

\* Lines 788-802: append the result to the log and update the statistics.
Record ==
  /\ pc = "record"
  /\ results' = Append(results, result)
  /\ stats' = UpdateStats(stats, result)
  /\ pc' = "push"
  /\ UNCHANGED <<actor_input, actions_data, i, sink, output, kv, exc>>
  /\ UNCHANGED <<ctlVars, execVars>>
  /\ UNCHANGED <<input_record, last_push, page_ops, page_url>>

\* Variant: push_data is not awaited, so the loop goes on while the record
\* has not reached the sink.
PushResultNotAwaited ==
  /\ pc = "push"
  /\ i' = i + 1
  /\ pc' = "loop"
  /\ UNCHANGED <<actor_input, actions_data, results, stats, sink, output, kv, exc>>
  /\ UNCHANGED <<ctlVars, execVars>>
  /\ UNCHANGED <<input_record, last_push, page_ops, page_url>>

\* Line 805: stream the result to the sink; the sink accepts or raises.
PushResult ==
  /\ pc = "push"
  /\ \E accepted \in BOOLEAN :
       IF accepted
         THEN /\ sink' = push_data(sink, ProgressRecord(result))
              /\ last_push' = "accepted"
              /\ i' = i + 1
              /\ pc' = "loop"
              /\ exc' = exc
         ELSE /\ sink' = sink
              /\ last_push' = "raised"
              /\ i' = i
              /\ pc' = "except"
              /\ exc' = "push_data failed"
  /\ UNCHANGED <<actor_input, actions_data, results, stats, output, kv>>
  /\ UNCHANGED <<ctlVars, execVars>>
  /\ UNCHANGED <<input_record, page_ops, page_url>>

\* Variant: _export_data without its try/except; an exporter error leaves it.
_export_dataUnguarded(fmt, ok) ==
  [keys |-> IF ~ok THEN {}
            ELSE IF fmt = "csv" THEN {"OUTPUT_CSV"}
            ELSE IF fmt = "excel" THEN {"OUTPUT_EXCEL"}
            ELSE {},
   raised |-> ~ok]

\* DataExporter / Actor.set_value outcome inside _export_data: the key
\* stored, if the format is known and nothing raised (errors are swallowed).
_export_data(fmt, ok) ==
  [keys |-> IF ~ok THEN {}
            ELSE IF fmt = "csv" THEN {"OUTPUT_CSV"}
            ELSE IF fmt = "excel" THEN {"OUTPUT_EXCEL"}
            ELSE {},
   raised |-> FALSE]

\* Lines 807-815: the loop is over; prepare the summary and export it.
Summary ==
  /\ pc = "loop"
  /\ i > Len(actions_data)
  /\ output' = _prepare_output(stats, results)
  /\ LET fmt == IF actor_input.export_format = None THEN "json"
                ELSE actor_input.export_format
     IN  IF fmt = "json"
           THEN kv' = kv /\ pc' = "push_output" /\ exc' = exc
           ELSE \E ok \in BOOLEAN :
                  LET e == _export_data(fmt, ok) IN
                    /\ kv' = kv \cup e.keys
                    /\ IF e.raised
                         THEN pc' = "except" /\ exc' = "export failed"
                         ELSE pc' = "push_output" /\ exc' = exc
  /\ UNCHANGED <<actor_input, actions_data, i, results, stats, sink>>
  /\ UNCHANGED <<ctlVars, execVars>>
  /\ UNCHANGED <<input_record, last_push, page_ops, page_url>>

\* Line 818: push the summary.
PushOutput ==
  /\ pc = "push_output"
  /\ \E accepted \in BOOLEAN :
       IF accepted
         THEN /\ sink' = push_data(sink, output)
              /\ last_push' = "accepted"
              /\ pc' = "finally"
              /\ exc' = exc
         ELSE /\ sink' = sink
              /\ last_push' = "raised"
              /\ pc' = "except"
              /\ exc' = "push_data failed"
  /\ UNCHANGED <<actor_input, actions_data, i, results, stats, output, kv>>
  /\ UNCHANGED <<ctlVars, execVars>>
  /\ UNCHANGED <<input_record, page_ops, page_url>>

\* Variant: the except handler reports the failure and does not re-raise.
ExceptSwallows ==
  /\ pc = "except"
  /\ \E accepted \in BOOLEAN :
       IF accepted
         THEN /\ sink' = push_data(sink, FailureRecord(exc, stats))
              /\ last_push' = "accepted"
              /\ exc' = None
         ELSE /\ sink' = sink
              /\ last_push' = "raised"
              /\ exc' = "push_data failed"
  /\ pc' = "finally"
  /\ UNCHANGED <<actor_input, actions_data, i, results, stats, output, kv>>
  /\ UNCHANGED <<ctlVars, execVars>>
  /\ UNCHANGED <<input_record, page_ops, page_url>>

\* Lines 820-827: the except handler pushes a failure record and re-raises;
\* a sink error here replaces the exception in flight.
Except ==
  /\ pc = "except"
  /\ \E accepted \in BOOLEAN :
       IF accepted
         THEN /\ sink' = push_data(sink, FailureRecord(exc, stats))
              /\ last_push' = "accepted"
              /\ exc' = exc
         ELSE /\ sink' = sink
              /\ last_push' = "raised"
              /\ exc' = "push_data failed"
  /\ pc' = "finally"
  /\ UNCHANGED <<actor_input, actions_data, i, results, stats, output, kv>>
  /\ UNCHANGED <<ctlVars, execVars>>
  /\ UNCHANGED <<input_record, page_ops, page_url>>

\* Variant: close() sits at the end of the try block, not in a finally.
FinallyOnSuccessOnly ==
  /\ pc = "finally"
  /\ IF controller.created /\ exc = None
       THEN \E failAt \in CloseFailPoints(controller) :
              LET c == close(controller, failAt) IN
                /\ releases' = [r \in Resources |->
                                  releases[r] + (IF r \in c.invoked THEN 1 ELSE 0)]
                /\ close_log' = Append(close_log, IF c.raised THEN "raised" ELSE c.log)
                /\ exc' = IF c.raised THEN "close failed" ELSE exc
       ELSE UNCHANGED <<releases, close_log, exc>>
  /\ pc' = IF exc' = None THEN "returned" ELSE "raised"
  /\ UNCHANGED <<actor_input, actions_data, i, results, stats, sink, output, kv>>
  /\ UNCHANGED <<controller, init_scripts, execVars>>
  /\ UNCHANGED <<input_record, last_push, page_ops, page_url>>

\* Lines 829-831: close the controller if one was created, then return or
\* let the exception propagate.
Finally ==
  /\ pc = "finally"
  /\ IF controller.created
       THEN \E failAt \in CloseFailPoints(controller) :
              LET c == close(controller, failAt) IN
                /\ releases' = [r \in Resources |->
                                  releases[r] + (IF r \in c.invoked THEN 1 ELSE 0)]
                /\ close_log' = Append(close_log, IF c.raised THEN "raised" ELSE c.log)
                /\ exc' = IF c.raised THEN "close failed" ELSE exc
       ELSE UNCHANGED <<releases, close_log, exc>>
  /\ pc' = IF exc' = None THEN "returned" ELSE "raised"
  /\ UNCHANGED <<actor_input, actions_data, i, results, stats, sink, output, kv>>
  /\ UNCHANGED <<controller, init_scripts, execVars>>
  /\ UNCHANGED <<input_record, last_push, page_ops, page_url>>

(***************************************************************************)
(* BrowserController.execute_action and LocatorStrategy.find_element       *)
(***************************************************************************)

\* How an awaited engine operation ends: it returns, or raises
\* PlaywrightTimeoutError or PlaywrightError.
EngineOutcomes == {"ok", "timeout", "error"}

EngineError(outcome) ==
  IF outcome = "timeout" THEN Exception("TimeoutError", "Timeout exceeded")
  ELSE Exception("Error", "engine error")

\* Variant: the except clause logs the exception but does not store it.
RaiseNoMessage(r, e) ==
  /\ controller' = controller
  /\ result' = r
  /\ pc' = "record"
  /\ exc' = exc
  /\ in_flight' = <<>>

\* Variant: the handler sets success before the operation that raises.
RaiseAfterSuccess(r, e) ==
  /\ controller' = controller
  /\ result' = [r EXCEPT !.success = TRUE, !.error = e.msg]
  /\ pc' = "record"
  /\ exc' = exc
  /\ in_flight' = <<>>

\* Variant: the handler has stored an output before the operation raises.
RaiseAfterOutput(r, e) ==
  /\ controller' = controller
  /\ result' = [r EXCEPT !.error = e.msg, !.output = "partial"]
  /\ pc' = "record"
  /\ exc' = exc
  /\ in_flight' = <<>>

\* Lines 424-429: exception e leaves the handler with the result as r: the
\* except clause stores str(e) and the result is returned; an exception the
\* clause does not catch propagates to the caller.
Raise(r, e) ==
  /\ controller' = controller
  /\ IF Caught(e)
       THEN result' = [r EXCEPT !.error = e.msg] /\ pc' = "record" /\ exc' = exc
       ELSE result' = r /\ pc' = "except" /\ exc' = e.msg
  /\ in_flight' = <<>>

\* Lines 422, 428-429: the handler returned; count the action, return r.
Complete(r) ==
  /\ controller' = [controller EXCEPT !.action_count = @ + 1]
  /\ result' = r
  /\ pc' = "record"
  /\ exc' = exc
  /\ in_flight' = <<>>

\* Lines 337-343 and the handler's leading checks: build the result, then
\* validate the action, start resolving its selector, or go on to operate.
ExecStart ==
  /\ pc = "execute"
  /\ attempts' = <<>>
  /\ locator' = None
  /\ element' = NoElement
  /\ LET r == ActionResult(action) IN
       IF Validate(action) # None
         THEN /\ Raise(r, Exception("ValueError", Validate(action)))
              /\ strategies' = <<>>
       ELSE IF UsesLocator(action)
         THEN /\ result' = r
              /\ strategies' = Strategies(action.selector_type)
              /\ pc' = "locating"
              /\ in_flight' = <<"execute_action">>
              /\ UNCHANGED <<controller, exc>>
       ELSE /\ result' = r
            /\ strategies' = <<>>
            /\ pc' = "operating"
            /\ in_flight' = <<"execute_action">>
            /\ UNCHANGED <<controller, exc>>
  /\ UNCHANGED <<actor_input, actions_data, i, results, stats, sink, output, kv>>
  /\ UNCHANGED <<action, releases, close_log, init_scripts>>
  /\ page_ops' = <<>>
  /\ UNCHANGED <<input_record, last_push, page_url>>

\* Variant: the visibility waits of all remaining strategies are started
\* together instead of one after the other.
TryStrategyGather ==
  /\ pc = "locating"
  /\ strategies # <<>>
  /\ attempts' = attempts \o SelectSeq(strategies, LAMBDA s : s \in Resolvers)
  /\ in_flight' = in_flight
                    \o [k \in 1..Len(SelectSeq(strategies, LAMBDA s : s \in Resolvers))
                          |-> "wait_for"]
  /\ strategies' = SelectSeq(strategies, LAMBDA s : s \in Resolvers)
  /\ pc' = IF strategies' = <<>> THEN pc ELSE "waiting"
  /\ UNCHANGED <<runVars, ctlVars, action, result, locator, element>>
  /\ UNCHANGED <<input_record, last_push, page_ops, page_url>>

\* find_element, one iteration of the loop up to its await (lines 181-197):
\* a strategy without a resolver is skipped; otherwise the locator is built
\* and the visibility wait on it is started.
TryStrategy ==
  /\ pc = "locating"
  /\ strategies # <<>>
  /\ LET s == Head(strategies) IN
       IF s \notin Resolvers
         THEN /\ strategies' = Tail(strategies)
              /\ UNCHANGED <<attempts, pc, in_flight>>
         ELSE /\ attempts' = Append(attempts, s)
              /\ in_flight' = Append(in_flight, "wait_for")
              /\ pc' = "waiting"
              /\ strategies' = strategies
  /\ UNCHANGED <<runVars, ctlVars, action, result, locator, element>>
  /\ UNCHANGED <<input_record, last_push, page_ops, page_url>>

\* Lines 197-204: the visibility wait ends. It returns (the locator is
\* returned to the handler), or it raises: an exception find_element
\* catches moves on to the next strategy, any other leaves find_element and
\* the handler and reaches execute_action's except clause.
WaitDone ==
  /\ pc = "waiting"
  /\ \E outcome \in EngineOutcomes :
       IF outcome = "ok"
         THEN /\ locator' = Head(strategies)
              /\ \E el \in Elements : element' = el
              /\ pc' = "operating"
              /\ in_flight' = <<"execute_action">>
              /\ UNCHANGED <<strategies, controller, result, exc>>
       ELSE IF LocatorCaught(EngineError(outcome))
         THEN /\ strategies' = Tail(strategies)
              /\ pc' = "locating"
              /\ in_flight' = <<"execute_action">>
              /\ UNCHANGED <<locator, element, controller, result, exc>>
       ELSE /\ Raise(result, EngineError(outcome))
            /\ UNCHANGED <<strategies, locator, element>>
  /\ UNCHANGED <<actor_input, actions_data, i, results, stats, sink, output, kv>>
  /\ UNCHANGED <<action, attempts, releases, close_log, init_scripts>>
  /\ UNCHANGED <<input_record, last_push, page_ops, page_url>>

\* Line 206: every strategy has been tried; find_element returns None.
LocateExhausted ==
  /\ pc = "locating"
  /\ strategies = <<>>
  /\ pc' = "not_found"
  /\ UNCHANGED <<runVars, ctlVars, execVars>>
  /\ UNCHANGED <<input_record, last_push, page_ops, page_url>>

\* The handler's `if not locator: raise ValueError(...)`.
RaiseNotFound ==
  /\ pc = "not_found"
  /\ Raise(result, NotFoundError(action))
  /\ UNCHANGED <<actor_input, actions_data, i, results, stats, sink, output, kv>>
  /\ UNCHANGED <<action, locVars, releases, close_log, init_scripts>>
  /\ UNCHANGED <<input_record, last_push, page_ops, page_url>>

\* The type-specific operation of the handler, after validation and
\* resolution.
Operate ==
  /\ pc = "operating"
  /\ CASE action.type = "wait_for_element" ->
            /\ Complete([result EXCEPT !.success = TRUE])
            /\ UNCHANGED <<page_ops, page_url>>
       [] action.type = "get_url" ->
            /\ Complete([result EXCEPT !.success = TRUE, !.output = page_url])
            /\ page_ops' = EngineOps(action)
            /\ UNCHANGED page_url
       [] action.type = "wait" ->
            /\ IF IntParsable(action.value)
                 THEN Complete([result EXCEPT !.success = TRUE])
                 ELSE Raise(result, Exception("ValueError", "invalid literal for int()"))
            /\ UNCHANGED <<page_ops, page_url>>
       [] action.type = "scroll" /\ action.value # None /\ ~IntParsable(action.value) ->
            /\ Raise(result, Exception("ValueError", "invalid literal for int()"))
            /\ UNCHANGED <<page_ops, page_url>>
       [] action.type = "navigate" ->
            /\ page_ops' = EngineOps(action)
            /\ \E outcome \in EngineOutcomes :
                 IF outcome = "ok"
                   THEN \E final \in {Str(action.value), RedirectURL} :
                          /\ page_url' = final
                          /\ Complete([result EXCEPT
                                         !.success = TRUE,
                                         !.output = NavigateOutput(action, final)])
                   ELSE /\ Raise(result, EngineError(outcome))
                        /\ UNCHANGED page_url
       [] action.type = "screenshot" ->
            /\ page_ops' = EngineOps(action)
            /\ UNCHANGED page_url
            /\ \E outcome \in EngineOutcomes :
                 IF outcome = "ok"
                   THEN Complete([result EXCEPT !.success = TRUE,
                                                !.screenshot_base64 = "base64",
                                                !.output = OutputOf(action)])
                   ELSE Raise(result, Exception("ValueError", "Screenshot failed"))
       [] action.type = "extract_attributes" ->
            /\ page_ops' = EngineOps(action)
            /\ UNCHANGED page_url
            /\ \E outcome \in EngineOutcomes :
                 IF outcome = "ok"
                   THEN Complete([result EXCEPT !.success = TRUE,
                                                !.output = _extract_attributes(element)])
                   ELSE Raise(result, EngineError(outcome))
       [] OTHER ->
            /\ page_ops' = EngineOps(action)
            /\ UNCHANGED page_url
            /\ \E outcome \in EngineOutcomes :
                 IF outcome = "ok"
                   THEN Complete([result EXCEPT !.success = TRUE,
                                                !.output = OutputOf(action)])
                   ELSE Raise(result, EngineError(outcome))
  /\ UNCHANGED <<actor_input, actions_data, i, results, stats, sink, output, kv>>
  /\ UNCHANGED <<action, locVars, releases, close_log, init_scripts>>
  /\ UNCHANGED <<input_record, last_push>>

(***************************************************************************)
(* Specifications                                                          *)
(***************************************************************************)

Next ==
  \/ GetInput \/ Resolve \/ Launch \/ LoopParse
  \/ ExecStart \/ TryStrategy \/ WaitDone \/ LocateExhausted \/ RaiseNotFound
  \/ Operate
  \/ Record \/ PushResult \/ Summary \/ PushOutput \/ Except \/ Finally

\* One run of the actor.
Spec == Init /\ [][Next]_vars

\* The same, with every awaited call eventually returning or raising.
FairSpec == Spec /\ WF_vars(Next)

(***************************************************************************)
(* BrowserController driven directly by a client                           *)
(***************************************************************************)

Selectors == {None, "", "h1"}
Values == {None, "", "abc", "500", "int:0", "int:500"}

\* Every Action a client may pass to execute_action.
AllActions ==
  { Action(t, sel, val, st) :
      t \in ActionType, sel \in Selectors, val \in Values, st \in SelectorType }

\* Most actions the client counts on one controller.
MaxExecCalls == 2

CtlInit ==
  /\ pc = "ctl_new"
  /\ controller = NewController
  /\ InitCommon

\* The client calls launch(); an exception of launch() reaches the client.
CtlLaunch ==
  /\ pc = "ctl_new"
  /\ \E stealth \in BOOLEAN : \E failAt \in LaunchFailPoints(stealth) :
       LET l == launch(controller, failAt, stealth) IN
         /\ controller' = l.ctl
         /\ page_url' = IF l.ctl.page THEN BlankURL ELSE page_url
         /\ init_scripts' = init_scripts + l.scripts
  /\ pc' = "idle"
  /\ UNCHANGED <<runVars, releases, close_log, execVars>>
  /\ UNCHANGED <<input_record, last_push, page_ops>>

\* The client calls execute_action on a launched, open controller.
CtlExecute ==
  /\ pc = "idle"
  /\ controller.page
  /\ close_log = <<>>
  /\ controller.action_count < MaxExecCalls
  /\ \E a \in AllActions : action' = a
  /\ pc' = "execute"
  /\ UNCHANGED <<runVars, ctlVars, result, locVars, in_flight>>
  /\ UNCHANGED <<input_record, last_push, page_ops, page_url>>

\* execute_action returned its result to the client.
CtlReturn ==
  /\ pc = "record"
  /\ pc' = "idle"
  /\ action' = NoAction
  /\ result' = NoResult
  /\ strategies' = <<>>
  /\ attempts' = <<>>
  /\ locator' = None
  /\ element' = NoElement
  /\ UNCHANGED <<runVars, ctlVars, in_flight>>
  /\ page_ops' = <<>>
  /\ UNCHANGED <<input_record, last_push, page_url>>

\* The client calls close(), in any launch state and possibly again.
CtlClose ==
  /\ pc \in {"ctl_new", "idle"}
  /\ Len(close_log) < MaxCloseCalls
  /\ \E failAt \in CloseFailPoints(controller) :
       LET c == close(controller, failAt) IN
         /\ releases' = [r \in Resources |->
                           releases[r] + (IF r \in c.invoked THEN 1 ELSE 0)]
         /\ close_log' = Append(close_log, IF c.raised THEN "raised" ELSE c.log)
  /\ pc' = "idle"
  /\ UNCHANGED <<runVars, controller, init_scripts, execVars>>
  /\ UNCHANGED <<input_record, last_push, page_ops, page_url>>

CtlNext ==
  \/ CtlLaunch \/ CtlExecute \/ CtlReturn \/ CtlClose
  \/ ExecStart \/ TryStrategy \/ WaitDone \/ LocateExhausted \/ RaiseNotFound
  \/ Operate

\* A BrowserController used through its public methods.
CtlSpec == CtlInit /\ [][CtlNext]_vars

(***************************************************************************)
(* Properties                                                              *)
(***************************************************************************)

\* run() has returned or re-raised.
Finished == pc \in {"returned", "raised"}

\* The positions inside execute_action.
ExecPcs == {"execute", "locating", "waiting", "not_found", "operating"}

\* The priority order AUTO resolution is specified to follow.
AutoOrder == <<"css", "xpath", "text", "role">>

\* Messages of the errors raised inside execute_action.
HandlerErrors ==
  {"requires 'selector'", "requires 'value'", "Element not found",
   "Element not found or timeout", "Timeout exceeded", "engine error",
   "Screenshot failed", "invalid literal for int()"}

\* C1: once the session has launched, and with the sink accepting every
\* record, a finished run has logged exactly one result per submitted
\* action, the k-th result referring to the k-th submitted action.
C1_ExactlyNResultsInOrder ==
  (Finished /\ controller.page /\ exc # "push_data failed") =>
    /\ Len(results) = Len(actions_data)
    /\ \A k \in 1..Len(results) :
         results[k].action = ParseAction(actions_data[k]).action

\* C2: whatever is raised inside execute_action, it returns a result
\* (with success = FALSE when it carries an error) instead of raising, and
\* the orchestrator records it, streams it and moves on to the next index;
\* only the sink rejecting the record ends the loop there.
C2_PerActionFailureContained ==
  [][ /\ pc \in ExecPcs => (pc' \in ExecPcs \cup {"record"} /\ exc' = exc)
      /\ (pc \in ExecPcs /\ pc' = "record" /\ result'.error # None)
           => ~result'.success
      /\ pc = "record" => (pc' = "push" /\ results' = Append(results, result))
      /\ pc = "push" => \/ pc' = "loop" /\ i' = i + 1
                        \/ pc' = "except" /\ exc' = "push_data failed"
    ]_vars

\* A failed result is in the log and the next action is being executed.
C2_Witness ==
  /\ pc = "execute"
  /\ i = 2
  /\ Len(results) = 1
  /\ ~results[1].success

\* C3: total_actions = successful_actions + failed_actions in every state
\* of the run: initially, after each action, and at run end on both paths.
C3_StatsBalance ==
  stats.total_actions = stats.successful_actions + stats.failed_actions

\* A run that ended on the failure path after one success and one failure.
C3_Witness ==
  /\ pc = "raised"
  /\ stats.successful_actions = 1
  /\ stats.failed_actions = 1

\* C4: once a controller has been created, close() is eventually invoked,
\* and it has been invoked whenever run() has returned or re-raised.
C4_CloseOnEveryExit ==
  /\ [](Finished /\ controller.created => Len(close_log) >= 1)
  /\ (controller.created ~> Len(close_log) >= 1)

\* run() re-raised after a launch that failed half-way, and close() ran.
C4_Witness ==
  /\ pc = "raised"
  /\ controller.created
  /\ ~controller.page
  /\ Len(close_log) = 1

\* C5: no close() call raises, in any launch state, also when one of its
\* release calls raises.
C5_CloseNeverRaises ==
  /\ \A k \in 1..Len(close_log) : close_log[k] # "raised"
  /\ exc # "close failed"

\* close() ran on a half-launched controller and a release call raised.
C5_Witness ==
  /\ Len(close_log) >= 1
  /\ close_log[1] = "error"
  /\ controller.context
  /\ ~controller.page

\* C6: after a first successful close(), every acquired resource has been
\* released exactly once, whatever further close() calls are made.
C6_ReleasedExactlyOnce ==
  (\E k \in 1..Len(close_log) : close_log[k] = "closed") =>
    \A r \in Resources : releases[r] = IF Held(controller, r) THEN 1 ELSE 0

\* C7: after close() returns, every resource launch acquired has had its
\* release operation invoked.
C7_CloseReleasesAll ==
  Len(close_log) >= 1 =>
    \A r \in Resources : Held(controller, r) => releases[r] >= 1

\* C8: AUTO resolution makes its visibility waits in the order css, xpath,
\* text, role, each at most once, and stops at the first one that succeeds.
C8_AutoOrderFirstWins ==
  (pc \in {"locating", "waiting", "not_found", "operating", "record"}
     /\ action.selector_type = "auto") =>
    /\ Len(attempts) <= Len(AutoOrder)
    /\ \A k \in 1..Len(attempts) : attempts[k] = AutoOrder[k]
    /\ locator # None =>
         (pc \notin {"locating", "waiting"} /\ locator = attempts[Len(attempts)])
    /\ locator = "css" => attempts = <<"css">>
    /\ (pc \notin {"locating", "waiting"} /\ UsesLocator(action)
           /\ Validate(action) = None
           /\ locator = None)
         => attempts = AutoOrder

\* AUTO resolution fell through CSS and XPath and resolved by text.
C8_Witness ==
  /\ pc = "operating"
  /\ action.selector_type = "auto"
  /\ locator = "text"
  /\ attempts = <<"css", "xpath", "text">>

\* C9: when AUTO resolution has tried all four strategies without success,
\* the action's result has success = FALSE and an element-not-found error,
\* nothing propagates to run(), and the loop goes on.
C9_NotFoundFailsAndContinues ==
  /\ (pc = "record" /\ action.selector_type = "auto" /\ UsesLocator(action)
        /\ locator = None /\ Validate(action) = None)
       => /\ attempts = AutoOrder
          /\ ~result.success
          /\ result.error \in {"Element not found", "Element not found or timeout"}
          /\ exc = None
  /\ \A k \in 1..Len(results) :
       results[k].error \in {"Element not found", "Element not found or timeout"}
         => (~results[k].success /\ exc \notin HandlerErrors
             /\ (exc = None => (i > k \/ pc = "push")))

\* An element-not-found failure is in the log and the next action executes.
C9_Witness ==
  /\ pc = "execute"
  /\ i = 2
  /\ Len(results) = 1
  /\ results[1].error = "Element not found"
  /\ results[1].action.selector_type = "auto"

\* A sink record is a per-action progress record / the run summary.
IsProgress(rec) == "data" \in DOMAIN rec
IsSummary(rec) == "actions" \in DOMAIN rec

\* C10: while action i executes, results 1..i-1 are in the log and the sink
\* holds exactly their records, in order; the summary enters the sink only
\* after the records of all submitted actions.
C10_StreamedInOrder ==
  /\ pc \in ExecPcs \cup {"record"} =>
       /\ Len(results) = i - 1
       /\ Len(sink) = i - 1
       /\ \A k \in 1..(i - 1) : sink[k] = ProgressRecord(results[k])
  /\ \A k \in 1..Len(sink) :
       /\ IsProgress(sink[k]) => (k <= Len(results) /\ sink[k] = ProgressRecord(results[k]))
       /\ IsSummary(sink[k]) =>
            /\ k = Len(actions_data) + 1
            /\ \A j \in 1..(k - 1) : sink[j] = ProgressRecord(results[j])

\* The summary is in the sink behind the records of two actions.
C10_Witness ==
  /\ Len(sink) = 3
  /\ IsSummary(sink[3])
  /\ IsProgress(sink[1])
  /\ IsProgress(sink[2])

\* Number of results in a log that are successful screenshots.
SuccessfulScreenshots(rs) ==
  Cardinality({k \in 1..Len(rs) : rs[k].action.type = "screenshot" /\ rs[k].success})

\* C11: screenshots_captured always equals the number of successful
\* screenshot results in the log: a successful screenshot adds exactly 1, a
\* failed screenshot and every other action add nothing.
C11_ScreenshotsCounted ==
  /\ stats.screenshots_captured = SuccessfulScreenshots(results)
  /\ \A k \in 1..Len(results) :
       ~Falsy(results[k].screenshot_base64)
         <=> (results[k].action.type = "screenshot" /\ results[k].success)

\* A failed screenshot followed by a successful one: one is counted.
C11_Witness ==
  /\ Len(results) = 2
  /\ results[1].action.type = "screenshot" /\ ~results[1].success
  /\ results[2].action.type = "screenshot" /\ results[2].success
  /\ stats.screenshots_captured = 1

\* A summary agrees with the run's statistics and result log.
SummaryMatchesRun(o) ==
  /\ o.success = (stats.failed_actions = 0)
  /\ o.stats = stats
  /\ Len(o.actions) = Len(results)
  /\ \A j \in 1..Len(results) : o.actions[j] = to_dict(results[j])

\* C12: once the whole list has been executed, the prepared and the pushed
\* Run Summary have success = (failed_actions = 0), the accumulated
\* statistics, and one entry per logged result in the log's order.
C12_SummaryMatchesRun ==
  /\ pc = "push_output" =>
       (SummaryMatchesRun(output) /\ Len(results) = Len(actions_data))
  /\ \A k \in 1..Len(sink) :
       IsSummary(sink[k]) =>
         (SummaryMatchesRun(sink[k]) /\ Len(results) = Len(actions_data))

\* A pushed summary of two actions, one of which failed.
C12_Witness ==
  /\ Len(sink) = 3
  /\ IsSummary(sink[3])
  /\ ~sink[3].success
  /\ stats.successful_actions = 1
  /\ stats.failed_actions = 1

\* Launch raised: a controller exists without a page.
LaunchFailed == controller.created /\ ~controller.page

\* C13: when launch fails, the record the run emits has the Run Summary's
\* shape: a success flag, the statistics and the (empty) action list.
C13_LaunchFailureSummaryShape ==
  (Finished /\ LaunchFailed /\ last_push = "accepted") =>
    /\ {"success", "stats", "actions"} \subseteq DOMAIN sink[Len(sink)]
    /\ sink[Len(sink)].actions = <<>>

\* C14: every finished run has called push_data for a final record, and the
\* record the sink accepted last carries the statistics accumulated so far.
C14_FinalRecordCarriesStats ==
  Finished =>
    /\ last_push # None
    /\ last_push = "accepted" =>
         /\ Len(sink) >= 1
         /\ ~IsProgress(sink[Len(sink)])
         /\ "stats" \in DOMAIN sink[Len(sink)]
         /\ sink[Len(sink)].stats = stats

\* A run aborted at its second action reported the counts of the first.
C14_Witness ==
  /\ pc = "raised"
  /\ exc = "not a valid ActionType"
  /\ last_push = "accepted"
  /\ stats.total_actions = 1
  /\ sink[Len(sink)].stats.total_actions = 1

\* C15: a result returned with success = FALSE carries a non-empty error,
\* and its output record holds that string under the key error.
C15_FailureHasError ==
  (pc = "record" /\ ~result.success) =>
    /\ ~Falsy(result.error)
    /\ "error" \in DOMAIN to_dict(result)
    /\ to_dict(result).error = result.error

\* An engine timeout returned as a failed result.
C15_Witness ==
  /\ pc = "record"
  /\ ~result.success
  /\ result.error = "Timeout exceeded"
  /\ to_dict(result).error = "Timeout exceeded"

\* C16: a returned result carries an error exactly when success is FALSE.
C16_ErrorIffFailure ==
  pc = "record" => (result.error # None <=> ~result.success)

\* A successful result with a payload and no error.
C16_Witness ==
  /\ pc = "record"
  /\ result.success
  /\ result.error = None
  /\ action.type = "get_title"
  /\ result.output = "page.title"

\* The template generator raised for the input's template.
TemplateRaised ==
  /\ pc \notin {"start", "resolve"}
  /\ ~Falsy(actor_input.template)
  /\ get_template(actor_input.template, actor_input.template_params).raised

\* execute_action has never been entered and nothing was counted.
NothingExecuted ==
  /\ results = <<>>
  /\ stats = InitStats
  /\ result = NoResult
  /\ attempts = <<>>
  /\ page_ops = <<>>
  /\ controller.action_count = 0

\* C17: a template error leaves the run without controller and launch; a
\* launch failure leaves it without any execute_action call; both go
\* straight to the failure path and report success = FALSE with zero counts.
C17_FatalErrorsAbortEarly ==
  /\ TemplateRaised =>
       /\ ~controller.created
       /\ init_scripts = 0
       /\ page_url = None
  /\ (TemplateRaised \/ LaunchFailed) =>
       /\ NothingExecuted
       /\ pc \in {"except", "finally", "raised"}
       /\ (Finished /\ last_push = "accepted") =>
            /\ sink = <<FailureRecord(exc, InitStats)>>
            /\ ~sink[1].success

\* A run that ended on a template error and reported it.
C17_Witness ==
  /\ pc = "raised"
  /\ TemplateRaised
  /\ sink = <<FailureRecord("Template error", InitStats)>>

\* C18: when the input names a template that generates a list, the list
\* the run executes is the generated one.
C18_TemplateListExecuted ==
  (/\ pc \notin {"start", "resolve"}
   /\ input_record.present
   /\ ~Falsy(input_record.template)
   /\ ~get_template(input_record.template, input_record.template_params).raised)
  => actions_data =
       get_template(input_record.template, input_record.template_params).actions

\* C19 as stated: a wait with any value succeeds without touching the page
\* or the locator.
C19_WaitAlwaysSucceeds ==
  (pc = "record" /\ action.type = "wait" /\ action.value # None) =>
    /\ result.success
    /\ page_ops = <<>>
    /\ attempts = <<>>

\* C19 amended: a wait whose value is an integer or a string of digits
\* succeeds; a value int() rejects yields a failed result; in no case is the
\* page or the locator touched.
C19_WaitSucceedsOnIntegers ==
  (pc = "record" /\ action.type = "wait") =>
    /\ action.value \in {"int:0", "int:500", "500"} =>
         (result.success /\ result.error = None)
    /\ action.value \in {"", "abc"} =>
         (~result.success /\ result.error = "invalid literal for int()")
    /\ page_ops = <<>>
    /\ attempts = <<>>

\* A wait given the string "500" succeeded.
C19_Witness ==
  /\ pc = "record"
  /\ action.type = "wait"
  /\ action.value = "500"
  /\ result.success

\* C20: a navigate whose load completes succeeds with the page's URL after
\* the load as output; a navigate without a value fails and starts no load.
C20_NavigateOutputIsFinalUrl ==
  (pc = "record" /\ action.type = "navigate") =>
    /\ Falsy(action.value) =>
         (~result.success /\ result.error = "requires 'value'" /\ page_ops = <<>>)
    /\ (~Falsy(action.value) /\ result.error = None) =>
         (result.success /\ result.output = page_url /\ page_ops = <<"goto">>)

\* A navigation that was redirected reports the URL it ended on.
C20_Witness ==
  /\ pc = "record"
  /\ action.type = "navigate"
  /\ result.success
  /\ result.output = RedirectURL
  /\ Str(action.value) # RedirectURL

\* The keys of the attribute record.
AttributeKeys == {"text", "class", "id", "href", "src", "value", "placeholder"}

\* Messages of the exceptions the engine raises.
EngineErrors == {"Timeout exceeded", "engine error"}

\* C21: extract_attributes on a resolved element fails only on an engine
\* error; otherwise its output is a record with exactly the seven keys, an
\* attribute the element lacks holding None.
C21_AttributesRecord ==
  (pc = "record" /\ action.type = "extract_attributes" /\ locator # None) =>
    /\ result.error \notin EngineErrors => result.success
    /\ result.success =>
         /\ result.error = None
         /\ DOMAIN result.output = AttributeKeys
         /\ result.output.text = element.text
         /\ \A k \in AttributeKeys \ {"text"} :
              result.output[k] =
                IF k \in DOMAIN element.attrs THEN element.attrs[k] ELSE None

\* The attributes of a link: href is there, src and value are None.
C21_Witness ==
  /\ pc = "record"
  /\ action.type = "extract_attributes"
  /\ result.success
  /\ DOMAIN element.attrs = {"class", "href"}
  /\ result.output.href = "/more"
  /\ result.output.src = None
  /\ result.output.value = None

\* The required-field table: types that need a selector, a value.
RequiresSelector ==
  {"click", "hover", "focus", "check", "uncheck", "type", "fill", "select",
   "press_key", "extract_attributes", "wait_for_element"}
RequiresValue ==
  {"navigate", "type", "fill", "select", "press_key", "evaluate", "wait"}

\* A field the action's type requires is missing.
MissingRequired(a) ==
  \/ a.type \in RequiresSelector /\ a.selector = None
  \/ a.type \in RequiresValue /\ a.value = None

\* C22: an action with a required field missing never reaches resolution
\* or execution: it is returned with success = FALSE and a validation
\* error, no strategy attempted, no engine operation started.
C22_ValidationFirst ==
  /\ pc \in {"locating", "waiting", "not_found", "operating"} =>
       ~MissingRequired(action)
  /\ (pc = "record" /\ MissingRequired(action)) =>
       /\ ~result.success
       /\ result.error \in {"requires 'selector'", "requires 'value'"}
       /\ attempts = <<>>
       /\ locator = None
       /\ page_ops = <<>>

\* A type action with a selector and no value failed validation.
C22_Witness ==
  /\ pc = "record"
  /\ action.type = "type"
  /\ action.selector = "h1"
  /\ action.value = None
  /\ result.error = "requires 'value'"
  /\ attempts = <<>>

\* C23: with an explicit selector_type (css, xpath, text, role) the only
\* visibility wait ever made is that strategy's, made once; find_element has
\* returned after exactly that one attempt.
C23_ExplicitSingleStrategy ==
  action.selector_type \in Resolvers =>
    /\ Len(attempts) <= 1
    /\ \A k \in 1..Len(attempts) : attempts[k] = action.selector_type
    /\ (pc \in {"not_found", "operating", "record"} /\ UsesLocator(action)
          /\ Validate(action) = None)
         => attempts = <<action.selector_type>>

\* The explicit XPath strategy failed and nothing else was tried.
C23_Witness ==
  /\ pc = "record"
  /\ action.selector_type = "xpath"
  /\ attempts = <<"xpath">>
  /\ result.error = "Element not found"

\* The strategies of the action find_element has a resolver for.
Attemptable(a) ==
  SelectSeq(Strategies(a.selector_type), LAMBDA s : s \in Resolvers)

\* C24: when every attempted strategy has failed, find_element returns None
\* with nothing raised and the result untouched; the failure the action
\* ends with is the handler's element-not-found error, never the engine's.
C24_NotFoundIsAValue ==
  /\ pc = "not_found" =>
       /\ locator = None
       /\ attempts = Attemptable(action)
       /\ result = ActionResult(action)
       /\ exc = None
  /\ (pc = "record" /\ UsesLocator(action) /\ Validate(action) = None
        /\ locator = None)
       => /\ attempts = Attemptable(action)
          /\ result.error \in {"Element not found", "Element not found or timeout"}

\* find_element returned None after four failed strategies.
C24_Witness ==
  /\ pc = "not_found"
  /\ attempts = AutoOrder
  /\ locator = None
  /\ result.error = None

\* Number of calls of one kind in flight.
InFlight(op) == Cardinality({k \in 1..Len(in_flight) : in_flight[k] = op})

\* C25: at most one execute_action call and, inside it, at most one
\* visibility wait is in flight; a wait in flight is the latest attempt, all
\* earlier ones having failed; action i is in flight only when the results
\* of actions 1..i-1 are in the log.
C25_OneAtATime ==
  /\ InFlight("execute_action") <= 1
  /\ InFlight("wait_for") <= 1
  /\ InFlight("execute_action") = 1
       <=> pc \in {"locating", "waiting", "not_found", "operating"}
  /\ InFlight("wait_for") = 1 <=> pc = "waiting"
  /\ pc = "waiting" =>
       (locator = None /\ attempts[Len(attempts)] = Head(strategies))
  /\ pc \in ExecPcs => Len(results) = i - 1

\* The second action's second strategy is waiting, the first is recorded.
C25_Witness ==
  /\ pc = "waiting"
  /\ i = 2
  /\ Len(results) = 1
  /\ attempts = <<"css", "xpath">>
  /\ in_flight = <<"execute_action", "wait_for">>

\* C26: the init script is installed at most once; it is installed only
\* with stealth_mode on and on an existing context; with stealth_mode on it
\* is installed before the page exists, so never during an action.
C26_StealthOnceAtLaunch ==
  /\ init_scripts <= 1
  /\ init_scripts = 1 => (actor_input.stealth_mode /\ controller.context)
  /\ ~actor_input.stealth_mode => init_scripts = 0
  /\ (actor_input.stealth_mode /\ controller.page) => init_scripts = 1
  /\ pc \in ExecPcs =>
       init_scripts = (IF actor_input.stealth_mode THEN 1 ELSE 0)

\* A stealth run executed its action and returned with one script installed.
C26_Witness ==
  /\ pc = "returned"
  /\ actor_input.stealth_mode
  /\ init_scripts = 1
  /\ Len(results) = 1

\* C27: wait_for_element succeeds exactly when the locator resolved, and
\* starts no operation on the element or the page.
C27_WaitForElementIffResolved ==
  (pc = "record" /\ action.type = "wait_for_element") =>
    /\ result.success <=> locator # None
    /\ page_ops = <<>>
    /\ result.output = None

\* wait_for_element succeeded on a selector resolved as text.
C27_Witness ==
  /\ pc = "record"
  /\ action.type = "wait_for_element"
  /\ result.success
  /\ locator = "text"
  /\ attempts = <<"css", "xpath", "text">>

\* Types that take no selector.
NoSelectorTypes ==
  {"navigate", "screenshot", "evaluate", "wait", "scroll", "get_title",
   "get_url", "go_back", "go_forward", "reload"}

\* C28: a type that takes no selector never enters find_element, selector
\* supplied or not; extract_text and get_html enter it only with a
\* selector and otherwise return the page's markup.
C28_NoLocatorWithoutNeed ==
  (pc \in {"locating", "waiting", "not_found", "operating", "record"}) =>
    /\ action.type \in NoSelectorTypes =>
         /\ pc \in {"operating", "record"}
         /\ attempts = <<>>
         /\ locator = None
    /\ action.type \in {"extract_text", "get_html"} =>
         /\ Falsy(action.selector) =>
              /\ pc \in {"operating", "record"}
              /\ attempts = <<>>
              /\ locator = None
              /\ (pc = "record" /\ result.success) =>
                   (result.output = "page.content" /\ page_ops = <<"content">>)
         /\ (~Falsy(action.selector) /\ pc = "record" /\ result.success) =>
              (locator # None /\ page_ops # <<"content">>)

\* A navigate given a selector went to the page without resolving it.
C28_Witness ==
  /\ pc = "record"
  /\ action.type = "navigate"
  /\ action.selector = "h1"
  /\ result.success
  /\ attempts = <<>>

\* C29: every step leaves the logged results as they are; the log grows
\* only by Record appending the result execute_action returned, and that
\* result is not changed while it is recorded and streamed.
C29_LogAppendOnly ==
  [][ /\ Len(results') \in {Len(results), Len(results) + 1}
      /\ \A k \in 1..Len(results) : results'[k] = results[k]
      /\ Len(results') = Len(results) + 1 =>
           (pc = "record" /\ results'[Len(results')] = result)
      /\ pc \in {"record", "push"} => result' = result
    ]_vars

\* Two results logged, then summary, export and close.
C29_Witness ==
  /\ Finished
  /\ Len(results) = 2
  /\ results[1].action.type = "click"
  /\ results[2].action.type = "get_title"
  /\ kv = {"OUTPUT_CSV"}
  /\ Len(close_log) = 1

\* C30: no exporter error reaches run(); the summary prepared and pushed is
\* determined by the statistics and the log alone, whatever the export
\* format and whether the export stored anything.
C30_ExportHasNoFeedback ==
  /\ exc # "export failed"
  /\ pc = "push_output" =>
       (output = _prepare_output(stats, results) /\ exc = None)
  /\ \A k \in 1..Len(sink) :
       IsSummary(sink[k]) => sink[k] = _prepare_output(stats, results)
  /\ (pc = "returned" /\ last_push = "accepted") => IsSummary(sink[Len(sink)])

\* A run whose CSV export failed returned with its summary pushed.
C30_Witness ==
  /\ pc = "returned"
  /\ actor_input.export_format = "csv"
  /\ kv = {}
  /\ IsSummary(sink[Len(sink)])
  /\ sink[Len(sink)].success

\* The run left the action loop by an exception: the session had launched
\* and the summary was never prepared.
LoopAborted ==
  /\ pc \in {"except", "finally", "raised"}
  /\ controller.page
  /\ output = NoOutput

\* Messages of the errors _parse_action raises.
ParseErrors == {"not a valid ActionType", "not a valid SelectorType"}

\* C31: a run that leaves the loop by an exception at index i has executed
\* and streamed actions 1..i-1 and nothing after i (a parse error: i itself
\* not executed; a sink rejection: i executed, not streamed); it pushes a
\* failure record with success = FALSE, the statistics so far and no actions
\* list, closes the session and re-raises; a run returns normally only
\* after its summary was prepared.
C31_LoopErrorAbortsRun ==
  /\ pc = "returned" => output # NoOutput
  /\ LoopAborted =>
       /\ i \in 1..Len(actions_data)
       /\ Len(results) \in {i - 1, i}
       /\ stats.total_actions = Len(results)
       /\ Len(sink) >= i - 1
       /\ \A k \in 1..(i - 1) : sink[k] = ProgressRecord(results[k])
       /\ pc = "except" =>
            /\ exc \in ParseErrors \cup {"push_data failed"}
            /\ exc \in ParseErrors <=> Len(results) = i - 1
            /\ Len(sink) = i - 1
       /\ pc \in {"finally", "raised"} =>
            /\ last_push = "accepted" =>
                 /\ sink[Len(sink)] = FailureRecord(exc, stats)
                 /\ Len(sink) = i
                 /\ ~sink[i].success
                 /\ "actions" \notin DOMAIN sink[i]
            /\ last_push = "raised" => Len(sink) = i - 1
       /\ pc = "raised" => (Len(close_log) = 1 /\ exc # None)

\* The second descriptor did not parse: one result streamed, then the
\* failure record, the session closed, the error re-raised.
C31_Witness ==
  /\ pc = "raised"
  /\ i = 2
  /\ exc = "not a valid ActionType"
  /\ Len(results) = 1
  /\ sink = <<ProgressRecord(results[1]), FailureRecord(exc, stats)>>
  /\ Len(close_log) = 1

\* C32: selector_type label passes the parser; find_element then makes no
\* visibility wait and returns None, so every handler that requires a
\* selector fails with an element-not-found error and starts no operation.
C32_LabelNeverResolves ==
  /\ ~ParseAction(ActionData("click", "h1", None, "label")).raised
  /\ action.selector_type = "label" =>
       /\ attempts = <<>>
       /\ locator = None
       /\ pc # "waiting"
       /\ (pc = "record" /\ action.type \in SelectorRequired
             /\ Validate(action) = None)
            => /\ ~result.success
               /\ result.error \in {"Element not found",
                                    "Element not found or timeout"}
               /\ page_ops = <<>>

\* A click with selector_type label failed without any visibility wait.
C32_Witness ==
  /\ pc = "record"
  /\ action.type = "click"
  /\ action.selector = "h1"
  /\ action.selector_type = "label"
  /\ result.error = "Element not found"
  /\ attempts = <<>>

\* The four counters of the statistics.
Counters ==
  {"total_actions", "successful_actions", "failed_actions", "screenshots_captured"}

\* C33: the log's length equals total_actions in every state, so whenever a
\* result is streamed and at run end; each step leaves every counter as it
\* is or adds 1 to it, and only the step recording an action changes any.
C33_CountersFollowLog ==
  /\ [](Len(results) = stats.total_actions)
  /\ [][ /\ \A c \in Counters : stats'[c] \in {stats[c], stats[c] + 1}
         /\ stats' # stats => (pc = "record" /\ Len(results') = Len(results) + 1)
       ]_vars

\* A finished run of two actions: a failure and a successful screenshot.
C33_Witness ==
  /\ Finished
  /\ Len(results) = 2
  /\ stats.total_actions = 2
  /\ stats.failed_actions = 1
  /\ stats.screenshots_captured = 1

\* C34: a returned result with success = FALSE has no output and no
\* screenshot payload; a screenshot payload is carried only by a successful
\* result of a screenshot action.
C34_NoPartialPayload ==
  pc = "record" =>
    /\ ~result.success =>
         (result.output = None /\ result.screenshot_base64 = None)
    /\ result.screenshot_base64 # None =>
         (action.type = "screenshot" /\ result.success)

\* A screenshot whose capture raised: failed, no output, no payload.
C34_Witness ==
  /\ pc = "record"
  /\ action.type = "screenshot"
  /\ ~result.success
  /\ result.error = "Screenshot failed"
  /\ result.output = None
  /\ result.screenshot_base64 = None

====
